---- MODULE Spec2Model ----
(***************************************************************************)
(* Word clock on an 8x8 LED matrix (WordClock_MAX7219.ino).                *)
(*                                                                         *)
(* The module models                                                       *)
(*   - the phrase encoder updateClock() and the digit encoders mapNumber() *)
(*     and mapOffset() as operators computed the way the sketch computes   *)
(*     them (clear, then one setRow per word, 8-bit rows);                 *)
(*   - the run state machine of loop() and the setup sub-machine of        *)
(*     setupTime(), one action per loop() pass / per pass of the while     *)
(*     loop of setupTime().                                                *)
(*                                                                         *)
(* Time: the sketch only ever uses millis() in the differences             *)
(* millis() - timeLastUpdate and millis() - timeLastActivity, compared     *)
(* with a threshold.  The model keeps these two differences (sinceUpdate,  *)
(* sinceActivity), in milliseconds, saturated at their thresholds, and     *)
(* lets time advance in steps of one refresh period.                       *)
(***************************************************************************)
EXTENDS Integers, Sequences, FiniteSets

\* ------------------------------------------------------------------------
\* Program constants

CLOCK_UPDATE_TIME == 5
SETUP_TIMEOUT == 10000
FONT_ROWS == 8
PRE_DELTA == 2
POST_DELTA == 2

\* Values of a uint8_t
Byte == 0..255

\* Hours of the RTC in 12H mode, minutes and the seconds the model reads
Hours == 1..12
Minutes == 0..59
Seconds == {0, 59}

\* Rows of the display / of a font character
Rows == 0..(FONT_ROWS - 1)

\* ------------------------------------------------------------------------
\* Bounds of the model

\* largest number given to mapNumber in the digit-encoder specification
MaxNum == 99
\* most single clicks counted in one edit state of the click specification
MaxClicks == 60
\* most minutes the RTC chip runs ahead of the RTC struct between two reads
MaxAhead == 1

\* ------------------------------------------------------------------------
\* 8-bit arithmetic

RECURSIVE BitOr(_, _)
\* a | b
BitOr(a, b) ==
    IF a = 0 THEN b
    ELSE IF b = 0 THEN a
    ELSE (IF a % 2 = 1 \/ b % 2 = 1 THEN 1 ELSE 0) + 2 * BitOr(a \div 2, b \div 2)

\* (uint8_t)(x << n)
Shl8(x, n) == (x * (2 ^ n)) % 256

\* ------------------------------------------------------------------------
\* Font data: fontMap[c + 1][i + 1] is row i of character c
\* (characters 0..9, then '+' and '-')

fontMap ==
    << << 7, 5, 5, 5, 5, 5, 7, 0 >>,
       << 1, 1, 1, 1, 1, 1, 1, 0 >>,
       << 7, 1, 1, 7, 4, 4, 7, 0 >>,
       << 7, 1, 1, 7, 1, 1, 7, 0 >>,
       << 4, 4, 5, 5, 7, 1, 1, 0 >>,
       << 7, 4, 4, 7, 1, 1, 7, 0 >>,
       << 7, 4, 4, 7, 5, 5, 7, 0 >>,
       << 7, 1, 1, 1, 1, 1, 1, 0 >>,
       << 7, 5, 5, 7, 5, 5, 7, 0 >>,
       << 7, 5, 5, 7, 1, 1, 7, 0 >>,
       << 0, 0, 2, 7, 2, 0, 0, 0 >>,
       << 0, 0, 0, 7, 0, 0, 0, 0 >> >>

\* pgm_read_byte(&fontMap[c][i])
FontByte(c, i) == fontMap[c + 1][i + 1]

\* ------------------------------------------------------------------------
\* Words of the clock face (clockWord_t: display row and bit pattern)

Word(r, d) == [row |-> r, data |-> d]

M_05 == Word(2, 240)
M_10 == Word(0, 88)
M_15 == Word(1, 254)
\* mutant: TWENTY without its last letter
M_20_short == Word(0, 124)

M_20 == Word(0, 126)
M_30 == Word(2, 15)

TO == Word(3, 12)
PAST == Word(3, 120)

H_01 == << Word(7, 73) >>
H_02 == << Word(6, 192), Word(7, 64) >>
H_03 == << Word(5, 31) >>
H_04 == << Word(7, 240) >>
H_05 == << Word(4, 240) >>
H_06 == << Word(5, 224) >>
\* mutant: both words of SEVEN on row 6
H_07_sameRow == << Word(6, 128), Word(6, 15) >>
H_07 == << Word(5, 128), Word(6, 15) >>
H_08 == << Word(4, 31) >>
H_09 == << Word(7, 15) >>
H_10 == << Word(4, 1), Word(5, 1), Word(6, 1) >>
H_11 == << Word(6, 63) >>
H_12 == << Word(6, 246) >>

\* ------------------------------------------------------------------------
\* The display (MD_MAX72XX with one device): row -> byte

\* mutant: the display is not cleared
clockClear_noop(disp) == disp

\* clock.clear()
clockClear(disp) == [i \in Rows |-> 0]

\* clock.setRow(r, v)
setRow(disp, r, v) == [disp EXCEPT ![r] = v]

\* mutant: only the first word of a branch is set
setWords_first(disp, ws) ==
    IF ws = << >> THEN disp
    ELSE [disp EXCEPT ![Head(ws).row] = Head(ws).data]

RECURSIVE setWords(_, _)
\* the setRow calls for a sequence of words, in order
setWords(disp, ws) ==
    IF ws = << >> THEN disp
    ELSE setWords(setRow(disp, Head(ws).row, Head(ws).data), Tail(ws))

\* ------------------------------------------------------------------------
\* Summer time

\* isSummerMode(): EEPROM.read(EE_SUMMER_FLAG) != 0
isSummerMode(ee) == ee # 0

\* currentHour(h), uint8_t arithmetic
currentHour(h, ee) ==
    LET h1 == (h + (IF isSummerMode(ee) THEN 1 ELSE 0)) % 256
    IN  IF h1 > 12 THEN 1 ELSE h1

\* ------------------------------------------------------------------------
\* Digit encoders

\* mutant: tens and units digits exchanged
mapNumber_swapped(num) ==
    LET hi == num % 10
        lo == num \div 10
    IN  [i \in Rows |-> BitOr(Shl8(FontByte(hi, i), 4), FontByte(lo, i))]

\* mapNumber(map, num)
mapNumber(num) ==
    LET hi == num \div 10
        lo == num % 10
    IN  [i \in Rows |-> BitOr(Shl8(FontByte(hi, i), 4), FontByte(lo, i))]

\* mapOffset(map, num), int8_t num
mapOffset(num) ==
    LET sign == IF num >= 0 THEN 10 ELSE 11
        n    == (IF num >= 0 THEN num ELSE 0 - num) % 10
    IN  [i \in Rows |-> BitOr(Shl8(FontByte(sign, i), 4), FontByte(n, i))]

RECURSIVE showRows(_, _, _)
\* for (i = from; i < FONT_ROWS; i++) clock.setRow(i, map[i])
showRows(disp, map, from) ==
    IF from >= FONT_ROWS THEN disp
    ELSE showRows(setRow(disp, from, map[from]), map, from + 1)

\* mapShow(map)
mapShow(disp, map) == showRows(clockClear(disp), map, 0)

\* ------------------------------------------------------------------------
\* Phrase encoder

\* The case labels of switch (m), in source order, each with the words its
\* branch sets (in setRow order)
MinuteCases ==
    << [lo |-> 0,               hi |-> 0 + POST_DELTA,  words |-> << >>],
       [lo |-> 60 - PRE_DELTA,  hi |-> 59,              words |-> << >>],
       [lo |-> 5 - PRE_DELTA,   hi |-> 5 + POST_DELTA,  words |-> << M_05 >>],
       [lo |-> 55 - PRE_DELTA,  hi |-> 55 + POST_DELTA, words |-> << M_05 >>],
       [lo |-> 10 - PRE_DELTA,  hi |-> 10 + POST_DELTA, words |-> << M_10 >>],
       [lo |-> 50 - PRE_DELTA,  hi |-> 50 + POST_DELTA, words |-> << M_10 >>],
       [lo |-> 15 - PRE_DELTA,  hi |-> 15 + POST_DELTA, words |-> << M_15 >>],
       [lo |-> 45 - PRE_DELTA,  hi |-> 45 + POST_DELTA, words |-> << M_15 >>],
       [lo |-> 20 - PRE_DELTA,  hi |-> 20 + POST_DELTA, words |-> << M_20 >>],
       [lo |-> 40 - PRE_DELTA,  hi |-> 40 + POST_DELTA, words |-> << M_20 >>],
       [lo |-> 25 - PRE_DELTA,  hi |-> 25 + POST_DELTA, words |-> << M_05, M_20 >>],
       [lo |-> 35 - PRE_DELTA,  hi |-> 35 + POST_DELTA, words |-> << M_05, M_20 >>],
       [lo |-> 30 - PRE_DELTA,  hi |-> 30 + POST_DELTA, words |-> << M_30 >>] >>

\* mutant: case ranges that exclude their lower end
MatchingCases_excl(m) ==
    {i \in DOMAIN MinuteCases : MinuteCases[i].lo < m /\ m <= MinuteCases[i].hi}

\* the case labels of switch (m) that match m
MatchingCases(m) ==
    {i \in DOMAIN MinuteCases : MinuteCases[i].lo <= m /\ m <= MinuteCases[i].hi}

\* switch (m): the words set by the branch taken (none when no label matches)
MinuteWords(m) ==
    LET hits == MatchingCases(m)
    IN  IF hits = {} THEN << >>
        ELSE MinuteCases[CHOOSE i \in hits : \A j \in hits : i <= j].words

\* mutant: the top of the hour interval ends one minute early
PastToWords_ge(m) ==
    IF m >= 0 + POST_DELTA /\ m < 60 - PRE_DELTA
    THEN IF m <= 30 + POST_DELTA THEN << PAST >> ELSE << TO >>
    ELSE << >>

\* mutant: 'to' starts one minute early
PastToWords_lt(m) ==
    IF m > 0 + POST_DELTA /\ m < 60 - PRE_DELTA
    THEN IF m < 30 + POST_DELTA THEN << PAST >> ELSE << TO >>
    ELSE << >>

\* To/past display
PastToWords(m) ==
    IF m > 0 + POST_DELTA /\ m < 60 - PRE_DELTA
    THEN IF m <= 30 + POST_DELTA THEN << PAST >> ELSE << TO >>
    ELSE << >>

\* mutant: the hour is adjusted one minute early
HourAdjust_ge(h, m) ==
    IF m >= 30 + POST_DELTA
    THEN IF h < 12 THEN h + 1 ELSE 1
    ELSE h

\* After the half hour the hour number is adjusted
HourAdjust(h, m) ==
    IF m > 30 + POST_DELTA
    THEN IF h < 12 THEN h + 1 ELSE 1
    ELSE h

\* switch (currentHour(h)): the table of the hour's word
HourTable ==
    << H_01, H_02, H_03, H_04, H_05, H_06, H_07, H_08, H_09, H_10, H_11, H_12 >>

\* the words of displayed hour d (the switch has a case for 1..12 only)
HourWords(d) == HourTable[d]

\* updateClock(h, m) on display disp with EEPROM flag byte ee
updateClock(disp, h, m, ee) ==
    LET d0 == clockClear(disp)
        d1 == setWords(d0, MinuteWords(m))
        d2 == setWords(d1, PastToWords(m))
        d3 == setWords(d2, HourWords(currentHour(HourAdjust(h, m), ee)))
    IN  d3

\* ------------------------------------------------------------------------
\* State

VARIABLES
    state,          \* loop(): static stateRun_t state
    setupState,     \* setupTime(): stateSetup_t state ("SS_NONE": not running)
    showPos,        \* showTime(): 0 before the hour digits, 1 while they show
    rtcH,           \* RTC.h
    rtcM,           \* RTC.m
    rtcS,           \* RTC.s
    eeprom,         \* EEPROM byte at EE_SUMMER_FLAG
    frame,          \* rows on the LED matrix
    map,            \* setupTime(): uint8_t map[FONT_ROWS]
    sinceUpdate,    \* millis() - timeLastUpdate, saturated
    sinceActivity,  \* millis() - timeLastActivity, saturated
    rtcWrite,       \* time sent by RTC.writeTime() in the last step, or NoWrite
    chipAhead,      \* minutes the chip has run since RTC was last read
    pc,             \* digit-encoder specification: "call", then "done"
    num,            \* digit-encoder specification: argument of mapNumber
    clicks,         \* click specification: single clicks in this edit state
    editStart,      \* click specification: value on entry to this edit state
    lastKey         \* key specification: key returned by the last swMode.read()

vars == << state, setupState, showPos, rtcH, rtcM, rtcS, eeprom, frame, map,
           sinceUpdate, sinceActivity, rtcWrite, chipAhead, pc, num, clicks,
           editStart, lastKey >>

\* variables of the pure-function and click specifications
aux == << pc, num, clicks, editStart, lastKey >>

\* MD_KeySwitch::read() with repeat disabled
Keys == {"KS_NULL", "KS_PRESS", "KS_DPRESS", "KS_LONGPRESS"}

\* contents of the EEPROM flag byte: cleared, set, and the erased value
EEValues == {0, 1, 255}

NoWrite == << >>

ZeroFrame == [i \in Rows |-> 0]

\* step by which the model advances millis(): one refresh period
Quantum == CLOCK_UPDATE_TIME * 1000

Min(a, b) == IF a <= b THEN a ELSE b

\* ------------------------------------------------------------------------
\* The RTC chip, running in 12H mode

\* the time k minutes after h:m on a 12 hour clock, as << hour, minute >>
ChipTime(h, m, k) ==
    LET t  == ((h % 12) * 60 + m + k) % 720
        hh == t \div 60
    IN  << IF hh = 0 THEN 12 ELSE hh, t % 60 >>

\* ------------------------------------------------------------------------
\* Steps of setupTime() on the edited values

\* mutant: the hour wraps one early
IncHour_12(h) ==
    LET h1 == (h + 1) % 256
    IN  IF h1 = 12 THEN 1 ELSE h1

\* mutant: the hour wraps one late
IncHour_14(h) ==
    LET h1 == (h + 1) % 256
    IN  IF h1 = 14 THEN 1 ELSE h1

\* h++; if (h == 13) h = 1;
IncHour(h) ==
    LET h1 == (h + 1) % 256
    IN  IF h1 = 13 THEN 1 ELSE h1

\* mutant: the minute wraps one early
IncMinute_59(m) == (m + 1) % 59

\* m = (m + 1) % 60;
IncMinute(m) == (m + 1) % 60

\* ------------------------------------------------------------------------
\* loop()

Init ==
    /\ state = "SR_UPDATE"
    /\ setupState = "SS_NONE"
    /\ showPos = 0
    /\ rtcH \in Hours
    /\ rtcM \in Minutes
    /\ rtcS \in Seconds
    /\ eeprom \in EEValues
    /\ frame = ZeroFrame
    /\ map = ZeroFrame
    /\ sinceUpdate = 0
    /\ sinceActivity = 0
    /\ rtcWrite = NoWrite
    /\ chipAhead = 0
    /\ pc = "run"
    /\ num = 0
    /\ clicks = 0
    /\ editStart = 0
    /\ lastKey = "KS_NULL"

\* case SR_UPDATE: RTC.readTime() fetches the time of the chip
Update ==
    /\ state = "SR_UPDATE"
    /\ \E s \in Seconds :
          LET t == ChipTime(rtcH, rtcM, chipAhead)
          IN  /\ rtcH' = t[1]
              /\ rtcM' = t[2]
              /\ rtcS' = s
              /\ frame' = updateClock(frame, t[1], t[2], eeprom)
    /\ chipAhead' = 0
    /\ sinceUpdate' = 0
    /\ state' = "SR_IDLE"
    /\ rtcWrite' = NoWrite
    /\ UNCHANGED << setupState, showPos, eeprom, map, sinceActivity, aux >>

\* mutant: single and double click select each other's mode
IdleKeyState_swapped(key, st) ==
    CASE key = "KS_DPRESS"    -> "SR_TIME"
      [] key = "KS_PRESS"     -> "SR_SETUP"
      [] key = "KS_LONGPRESS" -> "SR_SUMMER_TIME"
      [] OTHER                -> st

\* mutant: the switch is not consulted once the refresh is due
IdleKeyState_refreshFirst(key, st) ==
    IF st = "SR_UPDATE" THEN st
    ELSE CASE key = "KS_DPRESS"    -> "SR_SETUP"
           [] key = "KS_PRESS"     -> "SR_TIME"
           [] key = "KS_LONGPRESS" -> "SR_SUMMER_TIME"
           [] OTHER                -> st

\* the state chosen by switch (swMode.read()) in SR_IDLE
IdleKeyState(key, st) ==
    CASE key = "KS_DPRESS"    -> "SR_SETUP"
      [] key = "KS_PRESS"     -> "SR_TIME"
      [] key = "KS_LONGPRESS" -> "SR_SUMMER_TIME"
      [] OTHER                -> st

\* the state after the refresh check of SR_IDLE
IdleRefreshState(since, st) ==
    IF since >= CLOCK_UPDATE_TIME * 1000 THEN "SR_UPDATE" ELSE st

\* case SR_IDLE
Idle(key) ==
    /\ state = "SR_IDLE"
    /\ state' = IdleKeyState(key, IdleRefreshState(sinceUpdate, state))
    /\ rtcWrite' = NoWrite
    /\ UNCHANGED << setupState, showPos, rtcH, rtcM, rtcS, eeprom, frame, map,
                    sinceUpdate, sinceActivity, chipAhead, aux >>

\* case SR_SETUP: entry of setupTime()
SetupEnter ==
    /\ state = "SR_SETUP"
    /\ setupState = "SS_NONE"
    /\ sinceActivity' = 0
    /\ setupState' = "SS_DISP_HOUR"
    /\ rtcWrite' = NoWrite
    /\ UNCHANGED << state, showPos, rtcH, rtcM, rtcS, eeprom, frame, map,
                    sinceUpdate, chipAhead >>

\* mutant: the time-out needs more than SETUP_TIMEOUT
TimeoutState_gt(since, st) ==
    IF since > SETUP_TIMEOUT THEN "SS_END" ELSE st

\* the state after the time-out check at the top of the while loop
TimeoutState(since, st) ==
    IF since >= SETUP_TIMEOUT THEN "SS_END" ELSE st

\* mutant: in SS_HOUR every key event restarts the time-out
SetupPass_anyKey(key) ==
    /\ state = "SR_SETUP"
    /\ setupState \in {"SS_DISP_HOUR", "SS_HOUR", "SS_DISP_MIN", "SS_MIN"}
    /\ LET st == TimeoutState(sinceActivity, setupState)
       IN  CASE st = "SS_DISP_HOUR" ->
                  /\ map' = mapNumber(currentHour(rtcH, eeprom))
                  /\ frame' = mapShow(frame, map')
                  /\ setupState' = "SS_HOUR"
                  /\ UNCHANGED << rtcH, rtcM, sinceActivity >>
             [] st = "SS_HOUR" ->
                  CASE key = "KS_DPRESS" ->
                         /\ sinceActivity' = 0
                         /\ setupState' = "SS_DISP_MIN"
                         /\ UNCHANGED << rtcH, rtcM, frame, map >>
                    [] key = "KS_PRESS" ->
                         /\ sinceActivity' = 0
                         /\ rtcH' = IncHour(rtcH)
                         /\ setupState' = "SS_DISP_HOUR"
                         /\ UNCHANGED << rtcM, frame, map >>
                    [] OTHER ->
                         /\ sinceActivity' = (IF key = "KS_NULL" THEN sinceActivity ELSE 0)
                         /\ setupState' = st
                         /\ UNCHANGED << rtcH, rtcM, frame, map >>
             [] st = "SS_DISP_MIN" ->
                  /\ map' = mapNumber(rtcM)
                  /\ frame' = mapShow(frame, map')
                  /\ setupState' = "SS_MIN"
                  /\ UNCHANGED << rtcH, rtcM, sinceActivity >>
             [] st = "SS_MIN" ->
                  CASE key = "KS_DPRESS" ->
                         /\ sinceActivity' = 0
                         /\ setupState' = "SS_END"
                         /\ UNCHANGED << rtcH, rtcM, frame, map >>
                    [] key = "KS_PRESS" ->
                         /\ sinceActivity' = 0
                         /\ rtcM' = IncMinute(rtcM)
                         /\ setupState' = "SS_DISP_MIN"
                         /\ frame' = mapShow(frame, map)
                         /\ UNCHANGED << rtcH, map >>
                    [] OTHER ->
                         /\ setupState' = st
                         /\ UNCHANGED << rtcH, rtcM, frame, map, sinceActivity >>
             [] OTHER ->
                  /\ setupState' = "SS_END"
                  /\ UNCHANGED << rtcH, rtcM, frame, map, sinceActivity >>
    /\ rtcWrite' = NoWrite
    /\ UNCHANGED << state, showPos, rtcS, eeprom, sinceUpdate, chipAhead >>

\* mutant: a single click in SS_MIN stays in SS_MIN
SetupPass_noRedraw(key) ==
    /\ state = "SR_SETUP"
    /\ setupState \in {"SS_DISP_HOUR", "SS_HOUR", "SS_DISP_MIN", "SS_MIN"}
    /\ LET st == TimeoutState(sinceActivity, setupState)
       IN  CASE st = "SS_DISP_HOUR" ->
                  /\ map' = mapNumber(currentHour(rtcH, eeprom))
                  /\ frame' = mapShow(frame, map')
                  /\ setupState' = "SS_HOUR"
                  /\ UNCHANGED << rtcH, rtcM, sinceActivity >>
             [] st = "SS_HOUR" ->
                  CASE key = "KS_DPRESS" ->
                         /\ sinceActivity' = 0
                         /\ setupState' = "SS_DISP_MIN"
                         /\ UNCHANGED << rtcH, rtcM, frame, map >>
                    [] key = "KS_PRESS" ->
                         /\ sinceActivity' = 0
                         /\ rtcH' = IncHour(rtcH)
                         /\ setupState' = "SS_DISP_HOUR"
                         /\ UNCHANGED << rtcM, frame, map >>
                    [] OTHER ->
                         /\ setupState' = st
                         /\ UNCHANGED << rtcH, rtcM, frame, map, sinceActivity >>
             [] st = "SS_DISP_MIN" ->
                  /\ map' = mapNumber(rtcM)
                  /\ frame' = mapShow(frame, map')
                  /\ setupState' = "SS_MIN"
                  /\ UNCHANGED << rtcH, rtcM, sinceActivity >>
             [] st = "SS_MIN" ->
                  CASE key = "KS_DPRESS" ->
                         /\ sinceActivity' = 0
                         /\ setupState' = "SS_END"
                         /\ UNCHANGED << rtcH, rtcM, frame, map >>
                    [] key = "KS_PRESS" ->
                         /\ sinceActivity' = 0
                         /\ rtcM' = IncMinute(rtcM)
                         /\ setupState' = "SS_MIN"
                         /\ frame' = mapShow(frame, map)
                         /\ UNCHANGED << rtcH, map >>
                    [] OTHER ->
                         /\ setupState' = st
                         /\ UNCHANGED << rtcH, rtcM, frame, map, sinceActivity >>
             [] OTHER ->
                  /\ setupState' = "SS_END"
                  /\ UNCHANGED << rtcH, rtcM, frame, map, sinceActivity >>
    /\ rtcWrite' = NoWrite
    /\ UNCHANGED << state, showPos, rtcS, eeprom, sinceUpdate, chipAhead >>

\* one pass of the while loop of setupTime()
SetupPass(key) ==
    /\ state = "SR_SETUP"
    /\ setupState \in {"SS_DISP_HOUR", "SS_HOUR", "SS_DISP_MIN", "SS_MIN"}
    /\ LET st == TimeoutState(sinceActivity, setupState)
       IN  CASE st = "SS_DISP_HOUR" ->
                  /\ map' = mapNumber(currentHour(rtcH, eeprom))
                  /\ frame' = mapShow(frame, map')
                  /\ setupState' = "SS_HOUR"
                  /\ UNCHANGED << rtcH, rtcM, sinceActivity >>
             [] st = "SS_HOUR" ->
                  CASE key = "KS_DPRESS" ->
                         /\ sinceActivity' = 0
                         /\ setupState' = "SS_DISP_MIN"
                         /\ UNCHANGED << rtcH, rtcM, frame, map >>
                    [] key = "KS_PRESS" ->
                         /\ sinceActivity' = 0
                         /\ rtcH' = IncHour(rtcH)
                         /\ setupState' = "SS_DISP_HOUR"
                         /\ UNCHANGED << rtcM, frame, map >>
                    [] OTHER ->
                         /\ setupState' = st
                         /\ UNCHANGED << rtcH, rtcM, frame, map, sinceActivity >>
             [] st = "SS_DISP_MIN" ->
                  /\ map' = mapNumber(rtcM)
                  /\ frame' = mapShow(frame, map')
                  /\ setupState' = "SS_MIN"
                  /\ UNCHANGED << rtcH, rtcM, sinceActivity >>
             [] st = "SS_MIN" ->
                  CASE key = "KS_DPRESS" ->
                         /\ sinceActivity' = 0
                         /\ setupState' = "SS_END"
                         /\ UNCHANGED << rtcH, rtcM, frame, map >>
                    [] key = "KS_PRESS" ->
                         /\ sinceActivity' = 0
                         /\ rtcM' = IncMinute(rtcM)
                         /\ setupState' = "SS_DISP_MIN"
                         /\ frame' = mapShow(frame, map)
                         /\ UNCHANGED << rtcH, map >>
                    [] OTHER ->
                         /\ setupState' = st
                         /\ UNCHANGED << rtcH, rtcM, frame, map, sinceActivity >>
             [] OTHER ->
                  /\ setupState' = "SS_END"
                  /\ UNCHANGED << rtcH, rtcM, frame, map, sinceActivity >>
    /\ rtcWrite' = NoWrite
    /\ UNCHANGED << state, showPos, rtcS, eeprom, sinceUpdate, chipAhead >>

\* mutant: the seconds are written as they were read
SetupExit_keepS ==
    /\ state = "SR_SETUP"
    /\ setupState = "SS_END"
    /\ rtcS' = rtcS
    /\ rtcWrite' = << rtcH, rtcM, rtcS' >>
    /\ chipAhead' = 0
    /\ setupState' = "SS_NONE"
    /\ map' = ZeroFrame
    /\ sinceActivity' = 0
    /\ state' = "SR_UPDATE"
    /\ UNCHANGED << showPos, rtcH, rtcM, eeprom, frame, sinceUpdate, aux >>

\* case SR_SETUP: setupTime() returns (its locals end); RTC.s = 0;
\* RTC.writeTime() sets the chip to the RTC struct
SetupExit ==
    /\ state = "SR_SETUP"
    /\ setupState = "SS_END"
    /\ rtcS' = 0
    /\ rtcWrite' = << rtcH, rtcM, rtcS' >>
    /\ chipAhead' = 0
    /\ setupState' = "SS_NONE"
    /\ map' = ZeroFrame
    /\ sinceActivity' = 0
    /\ state' = "SR_UPDATE"
    /\ UNCHANGED << showPos, rtcH, rtcM, eeprom, frame, sinceUpdate, aux >>

\* case SR_TIME: showTime(currentHour(RTC.h), RTC.m) up to its first delay
ShowHour ==
    /\ state = "SR_TIME"
    /\ showPos = 0
    /\ frame' = mapShow(frame, mapNumber(currentHour(rtcH, eeprom)))
    /\ showPos' = 1
    /\ rtcWrite' = NoWrite
    /\ UNCHANGED << state, setupState, rtcH, rtcM, rtcS, eeprom, map,
                    sinceUpdate, sinceActivity, chipAhead, aux >>

\* case SR_TIME: the rest of showTime()
ShowMinute ==
    /\ state = "SR_TIME"
    /\ showPos = 1
    /\ frame' = mapShow(frame, mapNumber(rtcM))
    /\ showPos' = 0
    /\ state' = "SR_UPDATE"
    /\ rtcWrite' = NoWrite
    /\ UNCHANGED << setupState, rtcH, rtcM, rtcS, eeprom, map, sinceUpdate,
                    sinceActivity, chipAhead, aux >>

\* mutant: the flag is set whatever it was
FlipValue_set(ee) == 1

\* the byte flipSummerMode() writes: isSummerMode() ? 0 : 1
FlipValue(ee) == IF isSummerMode(ee) THEN 0 ELSE 1

\* case SR_SUMMER_TIME: flipSummerMode()
FlipSummer ==
    /\ state = "SR_SUMMER_TIME"
    /\ eeprom' = FlipValue(eeprom)
    /\ frame' = mapShow(frame, mapOffset(IF isSummerMode(eeprom') THEN 1 ELSE 0))
    /\ state' = "SR_UPDATE"
    /\ rtcWrite' = NoWrite
    /\ UNCHANGED << setupState, showPos, rtcH, rtcM, rtcS, map, sinceUpdate,
                    sinceActivity, chipAhead, aux >>

\* millis() advances (timeLastActivity exists while setupTime() runs)
Tick ==
    /\ sinceUpdate' = Min(sinceUpdate + Quantum, CLOCK_UPDATE_TIME * 1000)
    /\ sinceActivity' = IF setupState = "SS_NONE" THEN sinceActivity
                        ELSE Min(sinceActivity + Quantum, SETUP_TIMEOUT)
    /\ rtcWrite' = NoWrite
    /\ UNCHANGED << state, setupState, showPos, rtcH, rtcM, rtcS, eeprom,
                    frame, map, chipAhead, aux >>

\* the chip runs on by a minute; while setupTime() edits the RTC struct the
\* chip is not read before writeTime() overwrites it, so its advance is
\* only tracked outside setup
ChipMinute ==
    /\ state # "SR_SETUP"
    /\ chipAhead < MaxAhead
    /\ chipAhead' = chipAhead + 1
    /\ rtcWrite' = NoWrite
    /\ UNCHANGED << state, setupState, showPos, rtcH, rtcM, rtcS, eeprom,
                    frame, map, sinceUpdate, sinceActivity, aux >>

Next ==
    \/ Update
    \/ \E key \in Keys : Idle(key)
    \/ SetupEnter /\ UNCHANGED aux
    \/ \E key \in Keys : SetupPass(key) /\ UNCHANGED aux
    \/ SetupExit
    \/ ShowHour
    \/ ShowMinute
    \/ FlipSummer
    \/ Tick
    \/ ChipMinute

Spec == Init /\ [][Next]_vars

\* ------------------------------------------------------------------------
\* Digit-encoder specification: mapNumber() and mapShow() applied to every
\* number 0..MaxNum

InitDigits ==
    /\ state = "SR_TIME"
    /\ setupState = "SS_NONE"
    /\ showPos = 0
    /\ rtcH = 12
    /\ rtcM = 0
    /\ rtcS = 0
    /\ eeprom = 0
    /\ frame = ZeroFrame
    /\ map = ZeroFrame
    /\ sinceUpdate = 0
    /\ sinceActivity = 0
    /\ rtcWrite = NoWrite
    /\ chipAhead = 0
    /\ pc = "call"
    /\ num \in 0..MaxNum
    /\ clicks = 0
    /\ editStart = 0
    /\ lastKey = "KS_NULL"

\* mapNumber(map, num); mapShow(map);
DigitsCall ==
    /\ pc = "call"
    /\ map' = mapNumber(num)
    /\ frame' = mapShow(frame, map')
    /\ pc' = "done"
    /\ UNCHANGED << state, setupState, showPos, rtcH, rtcM, rtcS, eeprom,
                    sinceUpdate, sinceActivity, rtcWrite, chipAhead, num,
                    clicks, editStart, lastKey >>

NextDigits == DigitsCall

SpecDigits == InitDigits /\ [][NextDigits]_vars

\* ------------------------------------------------------------------------
\* Click specification: setupTime() from its entry, with no time passing,
\* counting the single clicks taken in the current edit state

InitClicks ==
    /\ state = "SR_SETUP"
    /\ setupState = "SS_NONE"
    /\ showPos = 0
    /\ rtcH \in Hours
    /\ rtcM \in Minutes
    /\ rtcS = 0
    /\ eeprom \in EEValues
    /\ frame = updateClock(ZeroFrame, rtcH, rtcM, eeprom)
    /\ map = ZeroFrame
    /\ sinceUpdate = 0
    /\ sinceActivity = 0
    /\ rtcWrite = NoWrite
    /\ chipAhead = 0
    /\ pc = "run"
    /\ num = 0
    /\ clicks = 0
    /\ editStart = 0
    /\ lastKey = "KS_DPRESS"

ClicksEnter ==
    /\ SetupEnter
    /\ clicks' = 0
    /\ editStart' = rtcH
    /\ UNCHANGED << pc, num, lastKey >>

ClicksPass(key) ==
    /\ SetupPass(key)
    /\ CASE setupState = "SS_HOUR" /\ key = "KS_PRESS" ->
              /\ clicks < MaxClicks
              /\ clicks' = clicks + 1
              /\ UNCHANGED editStart
         [] setupState = "SS_HOUR" /\ key = "KS_DPRESS" ->
              /\ clicks' = 0
              /\ editStart' = rtcM
         [] setupState = "SS_MIN" /\ key = "KS_PRESS" ->
              /\ clicks < MaxClicks
              /\ clicks' = clicks + 1
              /\ UNCHANGED editStart
         [] OTHER ->
              UNCHANGED << clicks, editStart >>
    /\ UNCHANGED << pc, num, lastKey >>

NextClicks ==
    \/ ClicksEnter
    \/ \E key \in Keys : ClicksPass(key)
    \/ SetupExit

SpecClicks == InitClicks /\ [][NextClicks]_vars

\* ------------------------------------------------------------------------
\* Key specification: setupTime() from its entry to the write of the time,
\* with time passing, recording the key each swMode.read() returns.  The
\* while loop of setupTime() and millis() keep running.

\* setupTime() starts on the double click read by loop()
InitKeys == InitClicks

\* the pass reads the switch (after the time-out check)
ReadsKey == TimeoutState(sinceActivity, setupState) \in {"SS_HOUR", "SS_MIN"}

KeysPass(key) ==
    /\ SetupPass(key)
    /\ lastKey' = (IF ReadsKey THEN key ELSE lastKey)
    /\ UNCHANGED << pc, num, clicks, editStart >>

KeysAnyPass == \E key \in Keys : KeysPass(key)

KeysEnter == SetupEnter /\ UNCHANGED aux

NextKeys ==
    \/ KeysEnter
    \/ KeysAnyPass
    \/ SetupExit
    \/ Tick

SpecKeys ==
    /\ InitKeys
    /\ [][NextKeys]_vars
    /\ WF_vars(KeysEnter)
    /\ WF_vars(KeysAnyPass)
    /\ WF_vars(SetupExit)
    /\ WF_vars(Tick)

\* ------------------------------------------------------------------------
\* Properties

\* updateClock(RTC.h, RTC.m) was the last operation on the display
WordsShown == state = "SR_IDLE"

\* the bit pattern the words ws put on row r (0 when none targets it)
SpanRow(ws, r) ==
    IF \E i \in DOMAIN ws : ws[i].row = r
    THEN ws[CHOOSE i \in DOMAIN ws : ws[i].row = r].data
    ELSE 0

\* the frame with the given eight rows
FrameOf(rows) == [i \in Rows |-> rows[i + 1]]

RECURSIVE BitAnd(_, _)
BitAnd(a, b) ==
    IF a = 0 \/ b = 0 THEN 0
    ELSE (IF a % 2 = 1 /\ b % 2 = 1 THEN 1 ELSE 0) + 2 * BitAnd(a \div 2, b \div 2)

MinuteRows == 0..2
PastToRow == 3
HourRows == 4..7
TopOfHour == {58, 59, 0, 1, 2}

\* the hour names whose words are exactly what rows 4..7 show
GlyphsShown == {k \in Hours : \A r \in HourRows : frame[r] = SpanRow(HourTable[k], r)}

\* the real hour with the summer offset applied first
OffsetHour(h, ee) == IF ee # 0 THEN (IF h + 1 = 13 THEN 1 ELSE h + 1) ELSE h

\* C1: every minute 0..59 matches exactly one of the thirteen case ranges of
\* the minute switch of updateClock: the ranges partition 0..59.
C1_MinutePartition ==
    /\ Len(MinuteCases) = 13
    /\ WordsShown => Cardinality(MatchingCases(rtcM)) = 1

C1_Witness == WordsShown /\ rtcM = 3

\* C2: at minutes 58, 59, 0, 1, 2 the frame of updateClock has rows 0..3 all
\* zero and shows the words of one hour name in rows 4..7, for every hour and
\* flag.
C2_TopOfHourOnlyHour ==
    (WordsShown /\ rtcM \in TopOfHour) =>
        /\ \A r \in MinuteRows \cup {PastToRow} : frame[r] = 0
        /\ GlyphsShown # {}
        /\ \E r \in HourRows : frame[r] # 0

C2_Witness == WordsShown /\ rtcM = 59 /\ rtcH = 12 /\ eeprom # 0

\* C3: with d the real hour after the summer offset, rows 4..7 of the frame
\* are exactly the words of hour (d mod 12) + 1 when the minute is 33..59 and
\* of hour d when it is 0..32, and of no other hour.
C3_HourPhrase ==
    WordsShown =>
        LET d == OffsetHour(rtcH, eeprom)
            e == IF rtcM >= 33 THEN (d % 12) + 1 ELSE d
        IN  GlyphsShown = {e}

C3_Witness == WordsShown /\ rtcH = 12 /\ rtcM = 33 /\ eeprom = 1

\* C4 as stated: at 9:23 with the flag off the frame is TWENTY (row 0), PAST
\* (row 3) and NINE (row 7) with every other row, row 2 included, zero.
C4_Original ==
    (WordsShown /\ rtcH = 9 /\ rtcM = 23 /\ eeprom = 0) =>
        frame = FrameOf(<< 126, 0, 0, 120, 0, 0, 0, 15 >>)

\* C4 amended: at 9:23 with the flag off the minute is in the window of 25
\* and the frame is TWENTY (row 0), FIVE (row 2, 0b11110000), PAST (row 3) and
\* NINE (row 7), every other row zero.
C4_TwentyFivePastNine ==
    (WordsShown /\ rtcH = 9 /\ rtcM = 23 /\ eeprom = 0) =>
        /\ MatchingCases(rtcM) = {11}
        /\ frame = FrameOf(<< 126, 0, 240, 120, 0, 0, 0, 15 >>)

C4_Witness == WordsShown /\ rtcH = 9 /\ rtcM = 23 /\ eeprom = 0 /\ frame[2] = 240

\* the anchor nearest to minute m, 0..60
Anchor(m) == 5 * ((m + 2) \div 5)

\* the minute phrase of an anchor
AnchorPhrase(a) ==
    CASE a \in {5, 55}  -> << M_05 >>
      [] a \in {10, 50} -> << M_10 >>
      [] a \in {15, 45} -> << M_15 >>
      [] a \in {20, 40} -> << M_20 >>
      [] a \in {25, 35} -> << M_20, M_05 >>
      [] a = 30         -> << M_30 >>
      [] OTHER          -> << >>

\* C5: rows 0..2 of the frame of updateClock are exactly the words of the
\* anchor nearest to the minute; at 9:38 with the flag off the frame is
\* TWENTY, TO and the three rows of TEN.
C5_MinutePhrase ==
    WordsShown =>
        /\ \A r \in MinuteRows : frame[r] = SpanRow(AnchorPhrase(Anchor(rtcM)), r)
        /\ (rtcH = 9 /\ rtcM = 38 /\ eeprom = 0) =>
               frame = FrameOf(<< 126, 0, 0, 12, 1, 1, 1, 0 >>)

C5_Witness == WordsShown /\ rtcH = 9 /\ rtcM = 38 /\ eeprom = 0

\* C6: row 3 of the frame of updateClock is PAST for minutes 3..32, TO for
\* minutes 33..57 and zero otherwise, and TO is lit exactly when the hour
\* shown is the one after the offset hour and a minute phrase is shown.
C6_PastTo ==
    WordsShown =>
        /\ frame[PastToRow] =
              (IF 3 <= rtcM /\ rtcM <= 32 THEN 120
               ELSE IF 33 <= rtcM /\ rtcM <= 57 THEN 12
               ELSE 0)
        /\ (frame[PastToRow] = 12) <=>
              /\ GlyphsShown = {(OffsetHour(rtcH, eeprom) % 12) + 1}
              /\ \E r \in MinuteRows : frame[r] # 0

C6_Witness == WordsShown /\ rtcM = 33 /\ frame[PastToRow] = 12

\* C7: for every number 0..MaxNum and every row, the high nibble of the row
\* made by mapNumber is the tens digit's font row, the low nibble the units
\* digit's, and the shifted tens row neither overlaps the units row nor
\* leaves the byte.
C7_DigitNibbles ==
    (pc = "done") =>
        \A i \in Rows :
            /\ map[i] \in Byte
            /\ map[i] \div 16 = FontByte(num \div 10, i)
            /\ map[i] % 16 = FontByte(num % 10, i)
            /\ FontByte(num \div 10, i) * 16 < 256
            /\ BitAnd(FontByte(num \div 10, i) * 16, FontByte(num % 10, i)) = 0
            /\ frame[i] = map[i]

C7_Witness == pc = "done" /\ num = 99 /\ map[0] = 119

\* setupTime() is editing the hour / the minute
EditingHour == state = "SR_SETUP" /\ setupState \in {"SS_DISP_HOUR", "SS_HOUR"}
EditingMinute == state = "SR_SETUP" /\ setupState \in {"SS_DISP_MIN", "SS_MIN"}

\* C8 as stated: after 13 consecutive single clicks in the hour edit state
\* the hour is back at its original value.
C8_Original == (EditingHour /\ clicks = 13) => rtcH = editStart

\* C8 amended: after 12 consecutive single clicks the hour is back at its
\* original value (the increment wraps 13 to 1, so the hour runs through 12
\* values); after 13 it is the hour following the original one.
C8_TwelveClicks ==
    /\ (EditingHour /\ clicks = 12) => rtcH = editStart
    /\ (EditingHour /\ clicks = 13) => rtcH = (editStart % 12) + 1

C8_Witness == EditingHour /\ clicks = 12 /\ editStart = 12 /\ rtcH = 12

\* C9: after 60 consecutive single clicks in the minute edit state the
\* minute is back at its original value, and after no smaller positive
\* number of clicks.
C9_SixtyClicks ==
    EditingMinute => ((rtcM = editStart) <=> (clicks % 60 = 0))

C9_Witness == EditingMinute /\ clicks = 60 /\ editStart = 59 /\ rtcM = 59

\* C10: the frame after updateClock(h, m) is a function of h, m and the
\* summer flag alone: it is the frame updateClock makes on a dark display,
\* whatever was shown before, and updateClock on it again leaves it as it is.
C10_FullFrameReplace ==
    WordsShown =>
        /\ frame = updateClock(ZeroFrame, rtcH, rtcM, eeprom)
        /\ frame = updateClock(frame, rtcH, rtcM, eeprom)
        /\ frame = updateClock(mapShow(frame, mapNumber(rtcM)), rtcH, rtcM, eeprom)

C10_Witness ==
    /\ WordsShown
    /\ rtcM = 8
    /\ \E r \in Rows : mapNumber(rtcM)[r] # 0 /\ frame[r] = 0

\* C11: in every reachable state the working hour is in 1..12, the working
\* minute in 0..59 and the hour currentHour displays in 1..12; real hour 12
\* with the summer flag set displays 1.
C11_TimeInRange ==
    /\ rtcH \in 1..12
    /\ rtcM \in 0..59
    /\ currentHour(rtcH, eeprom) \in 1..12
    /\ (rtcH = 12 /\ isSummerMode(eeprom)) => currentHour(rtcH, eeprom) = 1

C11_Witness ==
    /\ state = "SR_SETUP"
    /\ setupState = "SS_HOUR"
    /\ rtcH = 12
    /\ isSummerMode(eeprom)
    /\ frame = mapShow(ZeroFrame, mapNumber(1))

\* C12: RTC.writeTime() is called only on the step from SR_SETUP to
\* SR_UPDATE, which starts with the setup sub-machine at SS_END, and on every
\* such step; it sends the edited hour and minute with seconds 0.  No other
\* step, in an editing sub-state or in any other run state, writes.
C12_WriteOnlyOnExit ==
    /\ [](rtcWrite # NoWrite =>
             /\ state = "SR_UPDATE"
             /\ setupState = "SS_NONE"
             /\ rtcWrite = << rtcH, rtcM, 0 >>
             /\ rtcS = 0)
    /\ [][rtcWrite' # NoWrite =>
             /\ state = "SR_SETUP"
             /\ setupState = "SS_END"
             /\ state' = "SR_UPDATE"
             /\ rtcWrite' = << rtcH, rtcM, 0 >>]_vars
    /\ [][(state = "SR_SETUP" /\ state' # "SR_SETUP") =>
             /\ state' = "SR_UPDATE"
             /\ rtcWrite' # NoWrite]_vars

C12_Witness == rtcWrite # NoWrite /\ rtcWrite[3] = 0 /\ state = "SR_UPDATE"

\* setupTime() is in one of its four working sub-states
SetupWorking ==
    /\ state = "SR_SETUP"
    /\ setupState \in {"SS_DISP_HOUR", "SS_HOUR", "SS_DISP_MIN", "SS_MIN"}

\* the inactivity time-out has expired in a working sub-state
SetupTimedOut == SetupWorking /\ sinceActivity >= SETUP_TIMEOUT

\* C13: a pass of the setup loop that starts with the time-out expired ends
\* in SS_END whatever the sub-state and whatever key is pending, without
\* changing the hour, the minute or the display; the step that then leaves
\* SS_END writes the hour and minute as they stand after the increments made.
C13_TimeoutKeepsEdits ==
    /\ [][\A key \in Keys :
             (SetupTimedOut /\ SetupPass(key)) =>
                 /\ setupState' = "SS_END"
                 /\ rtcH' = rtcH
                 /\ rtcM' = rtcM
                 /\ frame' = frame]_vars
    /\ [][(state = "SR_SETUP" /\ setupState = "SS_END" /\ setupState' # "SS_END") =>
             rtcWrite' = << rtcH, rtcM, 0 >>]_vars

C13_Witness ==
    /\ state = "SR_SETUP"
    /\ setupState = "SS_END"
    /\ sinceActivity >= SETUP_TIMEOUT
    /\ frame = mapShow(ZeroFrame, mapNumber(currentHour(rtcH, eeprom)))
    /\ frame # mapShow(ZeroFrame, mapNumber(rtcM))

\* the three sub-modes of loop()
SubModes == {"SR_SETUP", "SR_TIME", "SR_SUMMER_TIME"}

\* the sub-mode a key event stands for
KeyMode(key) ==
    CASE key = "KS_PRESS"     -> "SR_TIME"
      [] key = "KS_DPRESS"    -> "SR_SETUP"
      [] key = "KS_LONGPRESS" -> "SR_SUMMER_TIME"

\* the refresh period has elapsed
RefreshDue == sinceUpdate >= CLOCK_UPDATE_TIME * 1000

\* C14: the run state only moves UPDATE -> IDLE, IDLE -> UPDATE or a
\* sub-mode, sub-mode -> UPDATE; a sub-mode is entered only from IDLE, the
\* single click selecting SR_TIME, the double click SR_SETUP and the long
\* press SR_SUMMER_TIME; the step out of UPDATE renders the words and reads
\* no key.
C14_RunStateMachine ==
    /\ [][(state = "SR_UPDATE" /\ state' # state) =>
             /\ state' = "SR_IDLE"
             /\ frame' = updateClock(frame, rtcH', rtcM', eeprom)]_vars
    /\ [][(state = "SR_IDLE" /\ state' # state) =>
             state' \in SubModes \cup {"SR_UPDATE"}]_vars
    /\ [][(state' \in SubModes /\ state' # state) => state = "SR_IDLE"]_vars
    /\ [][(state \in SubModes /\ state' # state) => state' = "SR_UPDATE"]_vars
    /\ [][\A key \in Keys \ {"KS_NULL"} : Idle(key) => state' = KeyMode(key)]_vars
    /\ [][(state = "SR_IDLE" /\ state' = "SR_UPDATE") => RefreshDue]_vars

C14_Witness ==
    /\ state = "SR_UPDATE"
    /\ rtcWrite = NoWrite
    /\ frame = mapShow(ZeroFrame, mapNumber(rtcM))

\* C15 (as amended): in SR_IDLE the refresh check and the switch are both
\* evaluated on every poll and the switch, evaluated last, wins: when the
\* refresh period has elapsed and the same poll returns a key event, the
\* next state is the sub-mode of that event; SR_UPDATE follows only when
\* the poll returns no event.
C15_KeyOverridesRefresh ==
    [][\A key \in Keys :
          (Idle(key) /\ RefreshDue) =>
              state' = (IF key = "KS_NULL" THEN "SR_UPDATE" ELSE KeyMode(key))]_vars

\* C15 as stated: with the refresh period elapsed the next state is
\* SR_UPDATE whatever the poll returns.
C15_Original ==
    [][\A key \in Keys : (Idle(key) /\ RefreshDue) => state' = "SR_UPDATE"]_vars

C15_Witness ==
    /\ state = "SR_SUMMER_TIME"
    /\ RefreshDue
    /\ frame = updateClock(ZeroFrame, rtcH, rtcM, eeprom)

\* the key events of the mode switch
KeyEvents == {"KS_PRESS", "KS_DPRESS", "KS_LONGPRESS"}

\* a pass of the setup loop that reads key in SS_HOUR before the time-out
HourKeyPass(key) ==
    /\ KeysPass(key)
    /\ setupState = "SS_HOUR"
    /\ sinceActivity < SETUP_TIMEOUT

\* C16 (as amended): in SS_HOUR the single click and the double click set
\* the last-activity time to the current time; a long press changes
\* neither the timer nor the hour nor the sub-state, so the time-out fires
\* SETUP_TIMEOUT after the most recent single or double click.
C16_ClicksResetTimer ==
    /\ [][\A key \in {"KS_PRESS", "KS_DPRESS"} :
             HourKeyPass(key) => sinceActivity' = 0]_vars
    /\ [][HourKeyPass("KS_LONGPRESS") =>
             /\ sinceActivity' = sinceActivity
             /\ setupState' = "SS_HOUR"
             /\ rtcH' = rtcH]_vars
    /\ [][\A key \in Keys :
             (KeysPass(key) /\ setupState = "SS_HOUR"
                /\ sinceActivity >= SETUP_TIMEOUT) => setupState' = "SS_END"]_vars

\* C16 as stated: each of the three key events restarts the timer.
C16_Original ==
    [][\A key \in KeyEvents : HourKeyPass(key) => sinceActivity' = 0]_vars

C16_Witness ==
    /\ state = "SR_SETUP"
    /\ setupState = "SS_HOUR"
    /\ lastKey = "KS_LONGPRESS"
    /\ sinceActivity > 0
    /\ sinceActivity < SETUP_TIMEOUT

\* the last read of the switch in setupTime() returned no click
NoClick == lastKey \notin {"KS_PRESS", "KS_DPRESS"}

\* C17: if from some point on no single or double click is read, setupTime()
\* reaches SS_END and loop() returns to SR_UPDATE; the sub-state becomes
\* SS_END only on the time-out or on a double click read in SS_MIN, loop()
\* leaves SR_SETUP only from SS_END, and a double click read in SS_HOUR
\* before the time-out moves on to SS_DISP_MIN inside setup.
C17_SetupTerminates ==
    /\ (<>[]NoClick) => <>(state = "SR_UPDATE")
    /\ [][(SetupWorking /\ setupState' = "SS_END") =>
             \/ sinceActivity >= SETUP_TIMEOUT
             \/ setupState = "SS_MIN" /\ lastKey' = "KS_DPRESS"]_vars
    /\ [][(state = "SR_SETUP" /\ state' # "SR_SETUP") =>
             /\ setupState = "SS_END"
             /\ state' = "SR_UPDATE"]_vars
    /\ [][HourKeyPass("KS_DPRESS") =>
             /\ setupState' = "SS_DISP_MIN"
             /\ state' = "SR_SETUP"]_vars

C17_Witness ==
    /\ state = "SR_UPDATE"
    /\ rtcWrite # NoWrite
    /\ lastKey = "KS_LONGPRESS"
    /\ frame = mapShow(ZeroFrame, mapNumber(rtcM))

\* the step of loop() that runs flipSummerMode()
FlipStep == state = "SR_SUMMER_TIME" /\ state' = "SR_UPDATE"

\* the offset digit shown for a flag byte
OffsetDigit(ee) == IF isSummerMode(ee) THEN 1 ELSE 0

\* C18: the step that runs flipSummerMode() inverts the summer flag and
\* leaves the frame with the '+' glyph in the high nibble and the digit of
\* the new offset in the low nibble of every font row; it changes neither
\* the hour, the minute nor the second and writes nothing to the clock; the
\* flag changes in no other step; a second flip gives back the flag and
\* the displayed hour.
C18_FlipSummer ==
    /\ [][FlipStep =>
             /\ isSummerMode(eeprom') = ~isSummerMode(eeprom)
             /\ \A i \in Rows :
                   /\ frame'[i] \div 16 = FontByte(10, i)
                   /\ frame'[i] % 16 = FontByte(OffsetDigit(eeprom'), i)
             /\ rtcH' = rtcH
             /\ rtcM' = rtcM
             /\ rtcS' = rtcS
             /\ rtcWrite' = NoWrite
             /\ isSummerMode(FlipValue(eeprom')) = isSummerMode(eeprom)
             /\ currentHour(rtcH', FlipValue(eeprom')) = currentHour(rtcH, eeprom)]_vars
    /\ [][eeprom' # eeprom => FlipStep]_vars

C18_Witness ==
    /\ state = "SR_UPDATE"
    /\ eeprom = 1
    /\ frame = mapShow(ZeroFrame, mapOffset(1))

\* setupTime() is waiting for a key in SS_HOUR / SS_MIN
WaitHour == state = "SR_SETUP" /\ setupState = "SS_HOUR"
WaitMinute == state = "SR_SETUP" /\ setupState = "SS_MIN"

\* the frame showing n in digits
DigitFrame(n) == mapShow(ZeroFrame, mapNumber(n))

\* C19 (as amended): while setupTime() waits in SS_MIN the frame is the
\* digit encoding of the minute that will be written back; while it waits
\* in SS_HOUR the frame is the digit encoding of currentHour() of the hour
\* that will be written back: that hour itself when the summer flag is
\* clear, the following hour (12 followed by 1) when it is set.  This holds
\* on entry and after every single click.
C19_EditFrame ==
    /\ WaitHour => frame = DigitFrame(currentHour(rtcH, eeprom))
    /\ (WaitHour /\ ~isSummerMode(eeprom)) => frame = DigitFrame(rtcH)
    /\ (WaitHour /\ isSummerMode(eeprom)) => frame = DigitFrame((rtcH % 12) + 1)
    /\ WaitMinute => frame = DigitFrame(rtcM)
    /\ rtcWrite # NoWrite => rtcWrite = << rtcH, rtcM, 0 >>

\* C19 as stated: the frame is the digit encoding of the hour (minute)
\* that will be written back, for both summer-flag values.
C19_Original ==
    /\ WaitHour => frame = DigitFrame(rtcH)
    /\ WaitMinute => frame = DigitFrame(rtcM)

C19_Witness ==
    /\ WaitHour
    /\ isSummerMode(eeprom)
    /\ clicks = 2
    /\ editStart = 3
    /\ rtcH = 5
    /\ frame = DigitFrame(6)

\* the words one call of updateClock(h, m) sets, in setRow order
ActiveSpans(h, m, ee) ==
    MinuteWords(m) \o PastToWords(m) \o HourWords(currentHour(HourAdjust(h, m), ee))

RECURSIVE RowOr(_, _)
\* the OR of the bit patterns of the words of ws that target row r
RowOr(ws, r) ==
    IF ws = << >> THEN 0
    ELSE BitOr(IF Head(ws).row = r THEN Head(ws).data ELSE 0, RowOr(Tail(ws), r))

\* the rows the words of ws target
SpanRows(ws) == {ws[i].row : i \in DOMAIN ws}

\* C20: for every hour, minute and flag no two words set by one call of
\* updateClock() target the same row (minute words on rows 0..2, PAST / TO
\* on row 3, hour words on rows 4..7), and the frame it leaves is, row by
\* row, the OR of the words that target the row, zero where none does.
C20_RowsDisjoint ==
    WordsShown =>
        LET ws == ActiveSpans(rtcH, rtcM, eeprom)
        IN  /\ \A i, j \in DOMAIN ws : i # j => ws[i].row # ws[j].row
            /\ SpanRows(MinuteWords(rtcM)) \subseteq MinuteRows
            /\ SpanRows(PastToWords(rtcM)) \subseteq {PastToRow}
            /\ SpanRows(HourWords(currentHour(HourAdjust(rtcH, rtcM), eeprom)))
                   \subseteq HourRows
            /\ frame = [r \in Rows |-> RowOr(ws, r)]

C20_Witness ==
    /\ WordsShown
    /\ rtcH = 7
    /\ rtcM = 24
    /\ eeprom = 0
    /\ frame = FrameOf(<< 126, 0, 240, 120, 0, 128, 15, 0 >>)

====
